---- MODULE Spec2Model ----
(***************************************************************************)
(* Browser sign-up automation: the Automation Driver, the Screenshot       *)
(* Archiver and the Interaction Toolset of the two variants of the script  *)
(* (src/assignment.js, called variant "A", and src/unnamed/part_000,       *)
(* called variant "B").                                                    *)
(*                                                                         *)
(* Spec      the process: top-level setup, executeAutomation, the agent    *)
(*           rounds, take_screenshot invocations, and re-running the       *)
(*           process against the same screenshots directory.               *)
(* SpecTools one tool invocation: Init draws the tool, its arguments and   *)
(*           the page it runs against, one action per tool applies it.     *)
(***************************************************************************)
EXTENDS Integers, Sequences, FiniteSets, TLC

VARIABLES
    variant,            \* which script runs: "A" or "B"
    pc,                 \* position of the process
    run,                \* number of the current process run (1, 2, ...)
    browserOpen,        \* the browser launched at line 9 is still open
    closeCount,         \* calls of browser.close() in this run
    turn,               \* agent rounds started in this run
    runEnd,             \* how run(...) ended: "none", "completed", "maxTurns", "error"
    driverLog,          \* what executeAutomation did, in order
    dirExists,          \* the screenshots directory exists on disk
    screenshotCounter,  \* let screenshotCounter
    allocated,          \* the paths getScreenshotPath returned in this run, in order
    disk,               \* the screenshots directory: path -> <<run, n>> of the last write
    runWrites,          \* path -> number of writes in this run
    pending,            \* take_screenshot invocations awaiting page.screenshot()
    call,               \* SpecTools: the tool invocation (tool, arguments, page)
    result,             \* SpecTools: what the invocation did and returned
    fill,               \* SpecTools: where fill_specific_field stands
    field               \* SpecTools: the input clear_and_type's hint resolves to

driverVars == <<variant, pc, run, browserOpen, closeCount, turn, runEnd, driverLog,
                dirExists, screenshotCounter, allocated, disk, runWrites, pending>>
toolVars == <<call, result, fill, field>>
vars == <<variant, pc, run, browserOpen, closeCount, turn, runEnd, driverLog,
          dirExists, screenshotCounter, allocated, disk, runWrites, pending,
          call, result, fill, field>>

\* ---------------------------------------------------------------- bounds
\* Rounds the agent may take; stands for maxTurns (50 in A, 30 in B).
MaxTurns == 2
\* Path allocations followed in one run.
MaxShots == 3
\* Overlapping take_screenshot invocations followed.
MaxPending == 2
\* Process runs against the same screenshots directory.
MaxRuns == 2

Variants == {"A", "B"}

\* ------------------------------------------------- Screenshot Archiver
\* Number.prototype.toString(): the decimal digits of n, most significant first.
RECURSIVE Digits(_)
Digits(n) == IF n < 10 THEN <<n>> ELSE Append(Digits(n \div 10), n % 10)

\* String.prototype.padStart(width, "0"): pads on the left, never truncates.
RECURSIVE padStart(_, _)
padStart(s, width) == IF Len(s) >= width THEN s ELSE padStart(<<0>> \o s, width)

PadWidth == 3

\* A slip: one fixed file name, as the iframe debug dump has.
ScreenshotPath_Fixed(n) == padStart(Digits(1), PadWidth)

\* The file name part that varies: screenshot_<digits>.png under screenshotsDir.
ScreenshotPath(n) == padStart(Digits(n), PadWidth)

\* getScreenshotPath(): screenshotCounter++ and the path of the new value.
getScreenshotPath_counter(c) == c + 1
getScreenshotPath(c) == ScreenshotPath(getScreenshotPath_counter(c))

Paths == {ScreenshotPath(n) : n \in 1..(MaxShots + 1)}

NoFile == <<0, 0>>

\* A slip: the counter moves only once the file is on disk, so a failed write
\* hands its path out again.
ShotSettles_CountsWrites(captured, written) ==
    IF ~captured
    THEN UNCHANGED <<screenshotCounter, allocated, disk, runWrites>>
    ELSE LET p == getScreenshotPath(screenshotCounter) IN
         /\ screenshotCounter' = IF written THEN screenshotCounter + 1
                                             ELSE screenshotCounter
         /\ allocated' = Append(allocated, p)
         /\ IF written
            THEN /\ disk' = [disk EXCEPT ![p] = <<run, screenshotCounter'>>]
                 /\ runWrites' = [runWrites EXCEPT ![p] = @ + 1]
            ELSE UNCHANGED <<disk, runWrites>>

\* takeScreenShot.execute() from the point where page.screenshot() has settled:
\* captured = the capture resolved, written = fs.writeFileSync succeeded.
\* A failed capture throws before a path is allocated; a failed write throws
\* after the counter has moved.
ShotSettles(captured, written) ==
    IF ~captured
    THEN UNCHANGED <<screenshotCounter, allocated, disk, runWrites>>
    ELSE LET p == getScreenshotPath(screenshotCounter) IN
         /\ screenshotCounter' = getScreenshotPath_counter(screenshotCounter)
         /\ allocated' = Append(allocated, p)
         /\ IF written
            THEN /\ disk' = [disk EXCEPT ![p] = <<run, screenshotCounter'>>]
                 /\ runWrites' = [runWrites EXCEPT ![p] = @ + 1]
            ELSE UNCHANGED <<disk, runWrites>>

\* ------------------------------------------------------------ the process
Init ==
    /\ variant \in Variants
    /\ pc = "launched"
    /\ run = 1
    /\ browserOpen = TRUE
    /\ closeCount = 0
    /\ turn = 0
    /\ runEnd = "none"
    /\ driverLog = <<>>
    /\ dirExists \in BOOLEAN
    /\ screenshotCounter = 0
    /\ allocated = <<>>
    /\ disk = [p \in Paths |-> NoFile]
    /\ runWrites = [p \in Paths |-> 0]
    /\ pending = 0
    /\ call = [tool |-> "none"]
    /\ result = [status |-> "none"]
    /\ fill = [stage |-> "idle"]
    /\ field = [times |-> 0]

\* const page = await browser.newPage(): a rejection ends the module's
\* evaluation, so nothing after it runs.
NewPage ==
    /\ pc = "launched"
    /\ \E ok \in BOOLEAN : pc' = IF ok THEN "pageReady" ELSE "crashed"
    /\ UNCHANGED <<variant, run, browserOpen, closeCount, turn, runEnd, driverLog,
                   dirExists, screenshotCounter, allocated, disk, runWrites, pending>>
    /\ UNCHANGED toolVars

\* existsSync / mkdirSync and let screenshotCounter = 0: mkdirSync runs only
\* when the directory is absent, and a throw ends the module's evaluation.
ScreenshotSetup ==
    /\ pc = "pageReady"
    /\ IF dirExists
       THEN /\ pc' = "scheduled"
            /\ UNCHANGED dirExists
       ELSE \E ok \in BOOLEAN :
                /\ pc' = IF ok THEN "scheduled" ELSE "crashed"
                /\ dirExists' = ok
    /\ screenshotCounter' = 0
    /\ UNCHANGED <<variant, run, browserOpen, closeCount, turn, runEnd, driverLog,
                   allocated, disk, runWrites, pending>>
    /\ UNCHANGED toolVars

\* setTimeout(() => executeAutomation()...): the try block is entered and
\* run(agent, task, { maxTurns }) starts.
StartAutomation ==
    /\ pc = "scheduled"
    /\ pc' = "running"
    /\ UNCHANGED <<variant, run, browserOpen, closeCount, turn, runEnd, driverLog,
                   dirExists, screenshotCounter, allocated, disk, runWrites, pending>>
    /\ UNCHANGED toolVars

\* The agent starts another round while the cap allows it.
AgentTurn ==
    /\ pc = "running"
    /\ turn < MaxTurns
    /\ turn' = turn + 1
    /\ UNCHANGED <<variant, pc, run, browserOpen, closeCount, runEnd, driverLog,
                   dirExists, screenshotCounter, allocated, disk, runWrites, pending>>
    /\ UNCHANGED toolVars

\* take_screenshot is invoked in a round: execute() awaits page.screenshot().
\* Tool calls of one round may overlap.
ShotBegin ==
    /\ pc = "running"
    /\ turn >= 1
    /\ pending < MaxPending
    /\ screenshotCounter + pending < MaxShots
    /\ pending' = pending + 1
    /\ UNCHANGED <<variant, pc, run, browserOpen, closeCount, turn, runEnd, driverLog,
                   dirExists, screenshotCounter, allocated, disk, runWrites>>
    /\ UNCHANGED toolVars

\* page.screenshot() settles for one waiting invocation; the rest of execute()
\* runs without another await.
ShotEnd ==
    /\ pending > 0
    /\ pending' = pending - 1
    /\ \E captured \in BOOLEAN, written \in BOOLEAN :
          /\ captured => browserOpen
          /\ ShotSettles(captured, written)
    /\ UNCHANGED <<variant, pc, run, browserOpen, closeCount, turn, runEnd, driverLog,
                   dirExists>>
    /\ UNCHANGED toolVars

\* run(...) resolves with the agent's final output.
RunReturns ==
    /\ pc = "running"
    /\ turn >= 1
    /\ pc' = "finally"
    /\ runEnd' = "completed"
    /\ driverLog' = Append(driverLog, "returned")
    /\ UNCHANGED <<variant, run, browserOpen, closeCount, turn,
                   dirExists, screenshotCounter, allocated, disk, runWrites, pending>>
    /\ UNCHANGED toolVars

\* The agent needs a round beyond the cap: run(...) rejects
\* (MaxTurnsExceededError of @openai/agents), which lands in the catch block.
RunExceedsMaxTurns ==
    /\ pc = "running"
    /\ turn = MaxTurns
    /\ pc' = "catch"
    /\ runEnd' = "maxTurns"
    /\ driverLog' = Append(driverLog, "caught")
    /\ UNCHANGED <<variant, run, browserOpen, closeCount, turn,
                   dirExists, screenshotCounter, allocated, disk, runWrites, pending>>
    /\ UNCHANGED toolVars

\* run(...) rejects for any other reason (model call failed, session lost).
RunThrows ==
    /\ pc = "running"
    /\ pc' = "catch"
    /\ runEnd' = "error"
    /\ driverLog' = Append(driverLog, "caught")
    /\ UNCHANGED <<variant, run, browserOpen, closeCount, turn,
                   dirExists, screenshotCounter, allocated, disk, runWrites, pending>>
    /\ UNCHANGED toolVars

\* A slip: the catch block only logs the error.
CatchScreenshot_LogOnly ==
    /\ pc = "catch"
    /\ pc' = "finally"
    /\ UNCHANGED <<variant, run, browserOpen, closeCount, turn, runEnd, driverLog,
                   dirExists, screenshotCounter, allocated, disk, runWrites, pending>>
    /\ UNCHANGED toolVars

\* catch (error): console.error, then try { await takeScreenShot.execute({}) }
\* catch { }: one attempt, whose failure is swallowed.
CatchScreenshot ==
    /\ pc = "catch"
    /\ pc' = "finally"
    /\ driverLog' = Append(driverLog, "shot")
    /\ \E captured \in BOOLEAN, written \in BOOLEAN :
          /\ captured => browserOpen
          /\ ShotSettles(captured, written)
    /\ UNCHANGED <<variant, run, browserOpen, closeCount, turn, runEnd,
                   dirExists, pending>>
    /\ UNCHANGED toolVars

\* finally: the review delay, then await browser.close().
Finally ==
    /\ pc = "finally"
    /\ pc' = "done"
    /\ browserOpen' = FALSE
    /\ closeCount' = closeCount + 1
    /\ driverLog' = Append(driverLog, "closed")
    /\ UNCHANGED <<variant, run, turn, runEnd,
                   dirExists, screenshotCounter, allocated, disk, runWrites, pending>>
    /\ UNCHANGED toolVars

\* The script is started again in the same working directory: every module
\* variable starts over, the screenshots directory keeps its files.
Rerun ==
    /\ pc \in {"done", "crashed"}
    /\ pending = 0
    /\ run < MaxRuns
    /\ run' = run + 1
    /\ pc' = "launched"
    /\ browserOpen' = TRUE
    /\ closeCount' = 0
    /\ turn' = 0
    /\ runEnd' = "none"
    /\ driverLog' = <<>>
    /\ screenshotCounter' = 0
    /\ allocated' = <<>>
    /\ runWrites' = [p \in Paths |-> 0]
    /\ pending' = 0
    /\ UNCHANGED <<variant, dirExists, disk>>
    /\ UNCHANGED toolVars

Next ==
    \/ NewPage
    \/ ScreenshotSetup
    \/ StartAutomation
    \/ AgentTurn
    \/ ShotBegin
    \/ ShotEnd
    \/ RunReturns
    \/ RunExceedsMaxTurns
    \/ RunThrows
    \/ CatchScreenshot
    \/ Finally
    \/ Rerun

Spec == Init /\ [][Next]_vars

TypeOK ==
    /\ variant \in Variants
    /\ pc \in {"launched", "pageReady", "scheduled", "running", "catch", "finally",
               "done", "crashed"}
    /\ screenshotCounter \in 0..(MaxShots + 1)
    /\ Len(allocated) <= MaxShots + 1

\* ------------------------------------------------------ Interaction Toolset
\* Matches one hint may have in one document: as many as the detail cap and one more.
MaxMatches == 6
\* A page that is lost during an invocation is lost after at most this many of
\* the invocation's page operations.
MaxCrashAfter == 3

\* ops: the number of page operations of the invocation that the page survives;
\* NoCrash stands for all of them. Every awaited page operation takes one.
NoCrash == MaxCrashAfter + 1
Alive(ops) == ops > 0
Spend(ops) == IF ops = NoCrash THEN NoCrash ELSE IF ops > 0 THEN ops - 1 ELSE 0
RECURSIVE SpendN(_, _)
SpendN(ops, n) == IF n = 0 THEN ops ELSE SpendN(Spend(ops), n - 1)

\* What a locator's first match is on the page.
ElemStates == {"absent", "hidden", "visible"}

\* The four readings of a Locator Hint.
Targets == {"mainSel", "mainText", "frameSel", "frameText"}

\* Pages as one hint sees them: the first match of each reading. Without an
\* iframe the frame readings match nothing.
HintDoms ==
    {d \in [mainSel : ElemStates, mainText : ElemStates, frameSel : ElemStates,
            frameText : ElemStates, hasFrame : BOOLEAN] :
        ~d.hasFrame => (d.frameSel = "absent" /\ d.frameText = "absent")}

\* What an invocation leaves behind. status: "pending", "returned" (a string
\* came back) or "thrown" (execute() rejected). ok: the string reports success.
\* via: the reading that resolved. attempts: the readings tried, in order.
\* effects: the page mutations issued, in order. count, listed: find_elements.
\* dumped: iframe_debug.html was written. timeout: the wait applied.
Pending ==
    [status |-> "pending", ok |-> FALSE, via |-> "none", attempts |-> <<>>,
     effects |-> <<>>, count |-> 0, listed |-> 0, dumped |-> FALSE, timeout |-> 0,
     ops |-> 0]

Returned(okay, by, att, eff, ops) ==
    [Pending EXCEPT !.status = "returned", !.ok = okay, !.via = by,
                    !.attempts = att, !.effects = eff, !.ops = ops]

Thrown(eff, ops) == [Pending EXCEPT !.status = "thrown", !.effects = eff, !.ops = ops]

\* locator.waitFor({ state: "visible" }): resolves when the first match is
\* visible and the page is there, rejects otherwise (timeout or lost page).
WaitVisible(state, ops) == Alive(ops) /\ state = "visible"

\* locator.click() waits for the first match to be visible itself and rejects
\* when it is not or when the page is lost.
Clicks(state, ops) == Alive(ops) /\ state = "visible"

\* ---- click_element, variant A (assignment.js)
\* A slip: the text reading tried before the selector reading.
StrategiesA_TextFirst == <<"mainText", "mainSel", "frameSel", "frameText">>

\* const strategies = [...]: the readings in the order of the array.
StrategiesA == <<"mainSel", "mainText", "frameSel", "frameText">>

\* for (i ...) try { await strategies[i](); await page.waitForTimeout(1000);
\* return success } catch { log }; after the loop the failure string.
RECURSIVE ClickLoopA(_, _, _, _, _)
ClickLoopA(i, dom, ops, att, eff) ==
    IF i > Len(StrategiesA)
    THEN Returned(FALSE, "none", att, eff, ops)
    ELSE LET t == StrategiesA[i]
             att2 == Append(att, t)
         IN  IF Clicks(dom[t], ops)
             THEN LET eff2 == Append(eff, <<"click", t>>)
                      ops2 == Spend(ops)
                  IN  IF Alive(ops2)
                      THEN Returned(TRUE, t, att2, eff2, Spend(ops2))
                      ELSE ClickLoopA(i + 1, dom, ops2, att2, eff2)
             ELSE ClickLoopA(i + 1, dom, Spend(ops), att2, eff)

ClickElementA(dom, ops) == ClickLoopA(1, dom, ops, <<>>, <<>>)

\* ---- getLocator, variant B (part_000)
\* if (page.locator(selector)): page.locator returns a Locator object whatever
\* the page holds, and an object is truthy.
LocatorIsTruthy == TRUE

\* getLocator(selector): the reading it hands back.
getLocator == IF LocatorIsTruthy THEN "mainSel" ELSE "frameSel"

\* ---- click_element, variant B
\* One try block: waitFor visible, click, return; any rejection falls through.
\* <<clicked, ops left>>.
TryClickB(state, ops) ==
    IF WaitVisible(state, ops)
    THEN <<Alive(Spend(ops)), SpendN(ops, 2)>>
    ELSE <<FALSE, Spend(ops)>>

\* The last catch: innerHTML of the frame body (its rejection gives ""), then
\* writeFileSync; a throw of the write reaches the outer catch, which returns
\* the error string.
ClickFallbackB(dom, ops, fsOk, att, eff) ==
    [Returned(FALSE, "none", att, eff, Spend(ops)) EXCEPT !.dumped = fsOk]

ClickElementB(dom, ops, fsOk) ==
    LET t1 == getLocator
        r1 == TryClickB(dom[t1], ops)
        r2 == TryClickB(dom.mainText, r1[2])
        r3 == TryClickB(dom.frameText, r2[2])
    IN  IF r1[1] THEN Returned(TRUE, t1, <<t1>>, <<<<"click", t1>>>>, r1[2])
        ELSE IF r2[1]
        THEN Returned(TRUE, "mainText", <<t1, "mainText">>,
                      <<<<"click", "mainText">>>>, r2[2])
        ELSE IF r3[1]
        THEN Returned(TRUE, "frameText", <<t1, "mainText", "frameText">>,
                      <<<<"click", "frameText">>>>, r3[2])
        ELSE ClickFallbackB(dom, r3[2], fsOk, <<t1, "mainText", "frameText">>, <<>>)

\* ---- clear_and_type, variant B
\* A slip: the rejection of waitFor is ignored and the text is typed without
\* the click (type focuses the element and has no visibility check).
ClearAndType_IgnoresWait(dom, ops) ==
    LET t == getLocator IN
    IF Alive(Spend(ops)) /\ dom[t] # "absent"
    THEN Returned(TRUE, t, <<t>>, <<<<"type", t>>>>, SpendN(ops, 2))
    ELSE Returned(FALSE, "none", <<t>>, <<>>, SpendN(ops, 2))

\* waitFor visible (10000), click({ clickCount: 3 }), keyboard.press("Backspace"),
\* type(text, { delay: 10 }); the first rejection goes to the catch, which
\* returns the failure string.
ClearAndType(dom, ops) ==
    LET t == getLocator
        o1 == Spend(ops)
        o2 == Spend(o1)
        o3 == Spend(o2)
        o4 == Spend(o3)
        click == <<"click", t>>
        press == <<"press", t>>
        type == <<"type", t>>
    IN  IF ~WaitVisible(dom[t], ops) THEN Returned(FALSE, "none", <<t>>, <<>>, o1)
        ELSE IF ~Alive(o1) THEN Returned(FALSE, "none", <<t>>, <<>>, o2)
        ELSE IF ~Alive(o2) THEN Returned(FALSE, "none", <<t>>, <<click>>, o3)
        ELSE IF ~Alive(o3) THEN Returned(FALSE, "none", <<t>>, <<click, press>>, o4)
        ELSE Returned(TRUE, t, <<t>>, <<click, press, type>>, o4)

\* ---- the text input clear_and_type works on
\* Characters of a field's content followed, and the longest content followed.
MaxLen == 2
Chars == {"a", "b"}
Texts == UNION {[1..n -> Chars] : n \in 0..MaxLen}

\* A single-line text input: its value and its selection, from selFrom to
\* selTo (the caret when both are equal), counted in characters before it.
\* times, first, before: the invocations made, whether the first one reported
\* success, the value before the second one.
FieldHolding(v) ==
    [value |-> v, selFrom |-> Len(v), selTo |-> Len(v), times |-> 0, first |-> FALSE,
     before |-> v]

\* A slip: a plain click, which puts the caret at the end and selects nothing.
TripleClick_Single(f) == [f EXCEPT !.selFrom = Len(f.value), !.selTo = Len(f.value)]

\* click({ clickCount: 3 }) in a single-line input selects its whole content.
TripleClick(f) == [f EXCEPT !.selFrom = 0, !.selTo = Len(f.value)]

\* The value without its selection, the caret where the selection began.
DeleteSelection(f) ==
    [f EXCEPT !.value = SubSeq(f.value, 1, f.selFrom)
                            \o SubSeq(f.value, f.selTo + 1, Len(f.value)),
              !.selTo = f.selFrom]

\* keyboard.press("Backspace"): removes the selection, or the character before
\* the caret when nothing is selected.
Backspace(f) ==
    IF f.selFrom < f.selTo THEN DeleteSelection(f)
    ELSE IF f.selTo = 0 THEN f
    ELSE [f EXCEPT !.value = SubSeq(f.value, 1, f.selTo - 1)
                                 \o SubSeq(f.value, f.selTo + 1, Len(f.value)),
                   !.selFrom = f.selTo - 1, !.selTo = f.selTo - 1]

\* One key of type(): the character replaces the selection or goes in at the
\* caret, which moves behind it.
TypeChar(f, c) ==
    LET g == IF f.selFrom < f.selTo THEN DeleteSelection(f) ELSE f IN
    [g EXCEPT !.value = SubSeq(g.value, 1, g.selTo) \o <<c>>
                            \o SubSeq(g.value, g.selTo + 1, Len(g.value)),
              !.selFrom = g.selTo + 1, !.selTo = g.selTo + 1]

\* el.type(text, { delay: 10 }): the characters of text, key by key.
RECURSIVE TypeText(_, _)
TypeText(f, text) ==
    IF text = <<>> THEN f ELSE TypeText(TypeChar(f, Head(text)), Tail(text))

\* The field after the page mutations an invocation issued, in their order.
RECURSIVE ApplyEffects(_, _, _)
ApplyEffects(f, eff, text) ==
    IF eff = <<>> THEN f
    ELSE LET op == Head(eff)[1]
             g == CASE op = "click" -> TripleClick(f)
                    [] op = "press" -> Backspace(f)
                    [] op = "type" -> TypeText(f, text)
         IN  ApplyEffects(g, Tail(eff), text)

\* ---- wait_for_element, variant B
DefaultTimeout == 10000

\* The timeout argument: z.number().nullable(). given = FALSE is null.
NullTimeout == [given |-> FALSE, ms |-> 0]
TimeoutArgs == {NullTimeout} \cup {[given |-> TRUE, ms |-> m] : m \in {0, 1, 20000}}

\* const timeout = input.timeout || 10000: || takes the right side when the
\* left is null or the number 0.
TimeoutUsed(timeout) ==
    IF timeout.given /\ timeout.ms # 0 THEN timeout.ms ELSE DefaultTimeout

\* getLocator, waitFor({ state: "visible", timeout }); resolved -> "appeared",
\* rejected -> "did not appear in <timeout>ms".
WaitForElement(dom, ops, timeout) ==
    LET t == getLocator IN
    [Returned(WaitVisible(dom[t], ops), IF WaitVisible(dom[t], ops) THEN t ELSE "none",
              <<t>>, <<>>, Spend(ops))
        EXCEPT !.timeout = TimeoutUsed(timeout)]

\* ---- find_elements, variant B
DetailCap == 5

Min(a, b) == IF a < b THEN a ELSE b

\* locator.first().count(): the locator getLocator returns is narrowed to the
\* first match, so it counts one element when there is any and none otherwise.
FirstCount(n) == IF n > 0 THEN 1 ELSE 0

\* The number of matches of the reading getLocator hands back.
MatchCount(nMain, nFrame) == IF getLocator = "mainSel" THEN nMain ELSE nFrame

\* count(); 0 -> "No elements found"; else textContent() (its rejection gives
\* "") of nth(i) for i < Math.min(count, 5), then "Found <count> elements".
\* A rejection of count() goes to the catch: "Error finding elements".
FindElements(nMain, nFrame, ops) ==
    LET t == getLocator
        count == FirstCount(MatchCount(nMain, nFrame))
        listed == Min(count, DetailCap)
    IN  IF ~Alive(ops)
        THEN Returned(FALSE, "none", <<t>>, <<>>, ops)
        ELSE IF count = 0
        THEN Returned(TRUE, "none", <<t>>, <<>>, Spend(ops))
        ELSE [Returned(TRUE, t, <<t>>, <<>>, SpendN(ops, 1 + listed))
                 EXCEPT !.count = count, !.listed = listed]

\* ---- dump_iframe_html, variant B
\* innerHTML of the first iframe's body, writeFileSync; a rejection or throw
\* goes to the catch, which returns the failure string.
DumpIframeHTML(hasFrame, ops, fsOk) ==
    LET got == Alive(ops) /\ hasFrame IN
    [Returned(got /\ fsOk, "none", <<>>, <<>>, Spend(ops)) EXCEPT !.dumped = got /\ fsOk]

\* ---- open_url
\* A: goto(url, networkidle), waitForTimeout(3000). B: goto(url),
\* waitForLoadState("networkidle"). Two awaited page operations and no try.
OpenURL(navOk, ops) ==
    IF navOk /\ Alive(ops) /\ Alive(Spend(ops))
    THEN Returned(TRUE, "none", <<>>, <<>>, SpendN(ops, 2))
    ELSE Thrown(<<>>, SpendN(ops, 2))

\* ---- take_screenshot
\* page.screenshot(), getScreenshotPath(), writeFileSync, return; no try.
TakeScreenShot(captured, written) ==
    IF captured /\ written
    THEN Returned(TRUE, "none", <<>>, <<>>, NoCrash)
    ELSE Thrown(<<>>, NoCrash)

\* ---- analyze_form_fields, variant A
AttributesRead == 5

\* locator('input').all() on the main page, then in the first iframe, each in
\* its own try; per input four getAttribute and one inputValue, each with a
\* catch of its own. The string always reports the number of fields listed.
AnalyzeFormFields(nMain, nFrame, ops) ==
    LET main == IF Alive(ops) THEN nMain ELSE 0
        o1 == SpendN(ops, 1 + main * AttributesRead)
        frame == IF Alive(o1) THEN nFrame ELSE 0
        o2 == SpendN(o1, 1 + frame * AttributesRead)
    IN  [Returned(TRUE, "none", <<>>, <<>>, o2) EXCEPT !.count = main + frame]

\* ---- submit_form, variant A
\* const submitSelectors = [...]: seven selectors.
NumSubmitSelectors == 7

Locs == {"main", "frame"}

\* The searches of the loop in the order the code makes them: selector k on
\* the main page, then selector k in the first iframe.
SubmitSearch(k) == <<(k + 1) \div 2, IF k % 2 = 1 THEN "main" ELSE "frame">>

\* for (selector ...) { try { waitFor visible (3000), click, waitForTimeout(2000),
\* return success } catch { }  -- main page, then the same in the iframe }.
\* vis: the searches whose first match is visible.
RECURSIVE SubmitLoop(_, _, _, _)
SubmitLoop(k, vis, ops, eff) ==
    IF k > 2 * NumSubmitSelectors
    THEN Returned(FALSE, "none", <<>>, eff, ops)
    ELSE LET t == SubmitSearch(k)
             state == IF t \in vis THEN "visible" ELSE "absent"
         IN  IF ~WaitVisible(state, ops)
             THEN SubmitLoop(k + 1, vis, Spend(ops), eff)
             ELSE IF ~Alive(Spend(ops))
             THEN SubmitLoop(k + 1, vis, SpendN(ops, 2), eff)
             ELSE IF ~Alive(SpendN(ops, 2))
             THEN SubmitLoop(k + 1, vis, SpendN(ops, 3), Append(eff, <<"click", t>>))
             ELSE Returned(TRUE, t, <<>>, Append(eff, <<"click", t>>), SpendN(ops, 3))

\* await page.waitForTimeout(2000) stands before the loop and outside any try.
SubmitForm(vis, ops) ==
    IF ~Alive(ops) THEN Thrown(<<>>, ops) ELSE SubmitLoop(1, vis, Spend(ops), <<>>)

\* ---- fill_specific_field, variant A
FieldTypes == {"firstName", "lastName", "email", "password", "confirmPassword", "other"}

\* const strategies = {...}; strategies[fieldType] || ['input']: the number of
\* selectors tried for a field type.
NumSelectors(fieldType) ==
    CASE fieldType \in {"firstName", "lastName", "email", "password"} -> 4
      [] fieldType = "confirmPassword" -> 11
      [] OTHER -> 1

\* selector === 'input[type="password"]' for confirmPassword: the last entry of
\* its list, resolved as the second element of locator(selector).all().
IsGenericPassword(fieldType, i) == fieldType = "confirmPassword" /\ i = 11

\* The location argument (z.string().nullable()): null, written "null" here,
\* the empty string, "main page", "iframe" or another string.
Locations == {"null", "", "main page", "iframe", "elsewhere"}

\* !input.location: null and the empty string are falsy.
NoLocation(location) == location \in {"null", ""}

\* A slip: the argument is not looked at.
LocationAllows_Unscoped(location, loc) == TRUE

\* !input.location || input.location === "main page" (resp. "iframe").
LocationAllows(location, loc) ==
    \/ NoLocation(location)
    \/ (loc = "main" /\ location = "main page")
    \/ (loc = "frame" /\ location = "iframe")

\* The awaited page operations of one attempt on one element.
\* special: lines 197-207 / 217-227; generic: lines 247-270 / 287-310 through
\* the all() branch; plain: the same through locator(selector).first().
SpecialOps == <<"all", "click", "selectText", "press", "wait", "fill", "wait", "inputValue">>
GenericOps == <<"all", "waitFor", "click", "selectText", "press", "wait", "fill", "wait",
                "inputValue">>
PlainOps == <<"waitFor", "click", "selectText", "press", "wait", "fill", "wait",
              "inputValue">>

\* What the element an attempt aims at is: for the all() branches "fewer" says
\* that fewer than two password fields exist.
FieldStates == {"absent", "fewer", "hidden", "visible"}

\* The elements a selector's match can be: the first password field, the
\* second one, another input.
Elems == {"pw1", "pw2", "other"}

\* A slip: the success string whatever was read back.
ReadBackVerdict_TrustsFill(readsBack) == "verified"

\* if (currentValue === input.value) return the success string; otherwise
\* fall out of the if, nothing thrown.
ReadBackVerdict(readsBack) == IF readsBack THEN "verified" ELSE "mismatch"

\* One attempt, operation by operation. k: how many of its operations the page
\* survives. state: what the element is. readsBack: inputValue() after
\* fill(value) gives value. The outcome is "verified" (the success string is
\* returned), "mismatch" (the read-back differs, nothing is thrown), "threw"
\* (an operation rejected) or "skipped" (fewer than two password fields).
\* read: what the comparison with input.value saw, if it was reached.
RECURSIVE RunOps(_, _, _, _, _, _)
RunOps(ops, j, k, state, readsBack, eff) ==
    IF j > Len(ops)
    THEN [outcome |-> ReadBackVerdict(readsBack), effects |-> eff,
          read |-> IF readsBack THEN "equal" ELSE "differs"]
    ELSE LET op == ops[j]
             lost == j > k
             threw == [outcome |-> "threw", effects |-> eff, read |-> "none"]
             go(e) == RunOps(ops, j + 1, k, state, readsBack, e)
         IN  CASE op = "all" ->
                    IF lost THEN threw
                    ELSE IF state \in {"fewer", "absent"}
                    THEN [outcome |-> "skipped", effects |-> eff, read |-> "none"]
                    ELSE go(eff)
               [] op = "waitFor" -> IF lost \/ state # "visible" THEN threw ELSE go(eff)
               [] op = "click" ->
                    IF lost \/ state # "visible" THEN threw ELSE go(Append(eff, "click"))
               [] op = "selectText" -> go(eff)
               [] op = "press" -> IF lost THEN threw ELSE go(Append(eff, "press"))
               [] op = "wait" -> IF lost THEN threw ELSE go(eff)
               [] op = "fill" -> IF lost THEN threw ELSE go(Append(eff, "fill"))
               [] op = "inputValue" -> IF lost THEN threw ELSE go(eff)

Attempt(ops, k, state, readsBack) == RunOps(ops, 1, k, state, readsBack, <<>>)

NoAttempt == [at |-> <<0, "none">>, state |-> "absent", elem |-> "other",
              outcome |-> "none", effects |-> <<>>, read |-> "none"]

\* What an input holds, as far as the requested value goes: "old" is a content
\* other than the value, "new" the value, "empty" nothing, "altered" what the
\* page made of the value when the read-back differs.
Contents == {"old", "new", "empty", "altered"}

\* The content of the element after an attempt's effects on it: selectText()
\* and press("Delete") empty it, fill(input.value) sets it.
ContentAfter(content, effects, readsBack) ==
    IF \E n \in 1..Len(effects) : effects[n] = "fill"
    THEN IF readsBack THEN "new" ELSE "altered"
    ELSE IF \E n \in 1..Len(effects) : effects[n] = "press" THEN "empty"
    ELSE content

\* The elements the first match of the i-th selector of a field type can be.
\* For confirmPassword: input[type="password"]:nth-of-type(2) is a password
\* input that is the second input among its siblings, which the first password
\* field is when one other input stands before it; an adjacent-sibling match
\* (the tenth selector) has a password field before it, so it is never the
\* first one; the last selector is resolved as all()[1], the second password
\* field; the attribute selectors match whatever carries the substring.
MayMatch(fieldType, i) ==
    CASE fieldType = "confirmPassword" /\ i = 10 -> {"pw2", "other"}
      [] fieldType = "confirmPassword" /\ i = 11 -> {"pw2"}
      [] OTHER -> Elems

\* The position after (i, loc) in the loop: the iframe after the main page,
\* the next selector after the iframe.
NextPos(i, loc) == IF loc = "main" THEN <<i, "frame">> ELSE <<i + 1, "main">>

\* -------------------------------------------------------- one tool invocation
ToolsA == {"take_screenshot", "open_url", "analyze_form_fields", "fill_specific_field",
           "click_element", "submit_form"}
ToolsB == {"take_screenshot", "open_url", "click_element", "clear_and_type",
           "wait_for_element", "find_elements", "dump_iframe_html"}
ToolsOf(v) == IF v = "A" THEN ToolsA ELSE ToolsB

OpsLeft == 0..NoCrash

SubmitSearches == {SubmitSearch(k) : k \in 1..(2 * NumSubmitSelectors)}

\* The invocations followed: the tool, its arguments and the page it meets.
HintCalls(name) ==
    [tool : {name}, dom : HintDoms, ops : OpsLeft, fsOk : BOOLEAN, timeout : TimeoutArgs]
TypeCalls ==
    [tool : {"clear_and_type"}, dom : HintDoms, ops : OpsLeft, fsOk : BOOLEAN,
     timeout : TimeoutArgs, old : Texts, text : Texts]
CountCalls(name) ==
    [tool : {name}, nMain : 0..MaxMatches, nFrame : 0..MaxMatches, ops : OpsLeft]

Calls(v) ==
    [tool : {"take_screenshot"}, captured : BOOLEAN, written : BOOLEAN]
    \cup [tool : {"open_url"}, navOk : BOOLEAN, ops : OpsLeft]
    \cup {c \in HintCalls("click_element") : c.timeout = NullTimeout}
    \cup (IF v = "A"
          THEN CountCalls("analyze_form_fields")
               \cup [tool : {"fill_specific_field"}, fieldType : FieldTypes,
                     location : Locations, pageOpen : BOOLEAN, pw1 : {"old", "new"}]
               \cup [tool : {"submit_form"}, vis : SUBSET SubmitSearches, ops : OpsLeft]
          ELSE {c \in TypeCalls : c.timeout = NullTimeout /\ c.fsOk}
               \cup {c \in HintCalls("wait_for_element") : c.fsOk}
               \cup CountCalls("find_elements")
               \cup [tool : {"dump_iframe_html"}, hasFrame : BOOLEAN, ops : OpsLeft,
                     fsOk : BOOLEAN])

\* execute(input) of fill_specific_field begins: the special block first for
\* confirmPassword, the selector loop first for every other field type.
FillEntry(c) ==
    [stage |-> IF c.fieldType = "confirmPassword" THEN "special" ELSE "loop",
     i |-> IF c.fieldType = "confirmPassword" THEN 0 ELSE 1,
     loc |-> "main", pageOpen |-> c.pageOpen, touchedLocs |-> {}, pw1Touched |-> FALSE,
     pw1 |-> c.pw1, mismatched |-> FALSE, mainTried |-> 0 - 1, attempt |-> NoAttempt]

\* The process is in its Running phase, the agent has asked for one tool.
ToolsInit ==
    /\ variant \in Variants
    /\ pc = "running"
    /\ run = 1
    /\ browserOpen = TRUE
    /\ closeCount = 0
    /\ turn = 1
    /\ runEnd = "none"
    /\ driverLog = <<>>
    /\ dirExists = TRUE
    /\ screenshotCounter = 0
    /\ allocated = <<>>
    /\ disk = [p \in Paths |-> NoFile]
    /\ runWrites = [p \in Paths |-> 0]
    /\ pending = 0
    /\ call \in Calls(variant)
    /\ result = Pending
    /\ fill = IF call.tool = "fill_specific_field" THEN FillEntry(call) ELSE [stage |-> "idle"]
    /\ field = IF call.tool = "clear_and_type" THEN FieldHolding(call.old) ELSE [times |-> 0]

Invoked(name) ==
    /\ pc = "running"
    /\ call.tool = name
    /\ name \in ToolsOf(variant)
    /\ result.status = "pending"

TakeScreenShotTool ==
    /\ Invoked("take_screenshot")
    /\ result' = TakeScreenShot(call.captured, call.written)
    /\ ShotSettles(call.captured, call.written)
    /\ UNCHANGED <<variant, pc, run, browserOpen, closeCount, turn, runEnd, driverLog,
                   dirExists, pending, call, fill, field>>

OpenURLTool ==
    /\ Invoked("open_url")
    /\ result' = OpenURL(call.navOk, call.ops)
    /\ UNCHANGED <<driverVars, call, fill, field>>

ClickElementTool ==
    /\ Invoked("click_element")
    /\ result' = IF variant = "A" THEN ClickElementA(call.dom, call.ops)
                                  ELSE ClickElementB(call.dom, call.ops, call.fsOk)
    /\ UNCHANGED <<driverVars, call, fill, field>>

ClearAndTypeTool ==
    /\ Invoked("clear_and_type")
    /\ result' = ClearAndType(call.dom, call.ops)
    /\ field' = [ApplyEffects(field, result'.effects, call.text)
                    EXCEPT !.times = 1, !.first = result'.ok]
    /\ UNCHANGED <<driverVars, call, fill>>

\* The agent calls clear_and_type once more with the same arguments, on the
\* page the first invocation left.
ClearAndTypeAgain ==
    /\ pc = "running"
    /\ call.tool = "clear_and_type"
    /\ result.status = "returned"
    /\ field.times = 1
    /\ result' = ClearAndType(call.dom, result.ops)
    /\ field' = [ApplyEffects(field, result'.effects, call.text)
                    EXCEPT !.times = 2, !.before = field.value]
    /\ UNCHANGED <<driverVars, call, fill>>

WaitForElementTool ==
    /\ Invoked("wait_for_element")
    /\ result' = WaitForElement(call.dom, call.ops, call.timeout)
    /\ UNCHANGED <<driverVars, call, fill, field>>

FindElementsTool ==
    /\ Invoked("find_elements")
    /\ result' = FindElements(call.nMain, call.nFrame, call.ops)
    /\ UNCHANGED <<driverVars, call, fill, field>>

DumpIframeHTMLTool ==
    /\ Invoked("dump_iframe_html")
    /\ result' = DumpIframeHTML(call.hasFrame, call.ops, call.fsOk)
    /\ UNCHANGED <<driverVars, call, fill, field>>

AnalyzeFormFieldsTool ==
    /\ Invoked("analyze_form_fields")
    /\ result' = AnalyzeFormFields(call.nMain, call.nFrame, call.ops)
    /\ UNCHANGED <<driverVars, call, fill, field>>

SubmitFormTool ==
    /\ Invoked("submit_form")
    /\ result' = SubmitForm(call.vis, call.ops)
    /\ UNCHANGED <<driverVars, call, fill, field>>

\* fill_specific_field advances to (stage, i, loc) after the attempt a on elem.
FillMoves(stage, i, loc, k, all, a, elem) ==
    [fill EXCEPT !.stage = stage, !.i = i, !.loc = loc,
                 !.pageOpen = fill.pageOpen /\ k = all,
                 !.touchedLocs = IF a.effects # <<>> THEN @ \cup {fill.loc} ELSE @,
                 !.pw1Touched = @ \/ (a.effects # <<>> /\ elem = "pw1"),
                 !.mainTried = IF fill.loc = "main" THEN fill.i ELSE @,
                 !.mismatched = @ \/ a.read = "differs",
                 !.pw1 = IF elem = "pw1" THEN ContentAfter(@, a.effects, a.readsBack) ELSE @,
                 !.attempt = [at |-> <<fill.i, fill.loc>>, state |-> a.state, elem |-> elem,
                              outcome |-> a.outcome, effects |-> a.effects,
                              read |-> a.read]]

\* A location the argument rules out is passed over without touching the page.
FillPasses(stage, i, loc) ==
    [fill EXCEPT !.stage = stage, !.i = i, !.loc = loc, !.attempt = NoAttempt]

\* if (input.fieldType === 'confirmPassword') { try { main page: all(), second
\* field, click ... inputValue, return on equality; then the same in the
\* iframe } catch { log } }: one location per step. A rejection leaves the
\* block for the selector loop; a mismatch or too few fields goes on.
FillSpecial ==
    /\ Invoked("fill_specific_field")
    /\ fill.stage = "special"
    /\ LET loc == fill.loc
           after == IF loc = "main" THEN <<"special", 0, "frame">> ELSE <<"loop", 1, "main">>
       IN  IF ~LocationAllows(call.location, loc)
           THEN /\ fill' = FillPasses(after[1], after[2], after[3])
                /\ UNCHANGED result
           ELSE \E state \in {"fewer", "hidden", "visible"}, readsBack \in BOOLEAN,
                   k \in 0..Len(SpecialOps) :
                  /\ ~fill.pageOpen => k = 0
                  /\ LET r == Attempt(SpecialOps, k, state, readsBack)
                         a == [state |-> state, outcome |-> r.outcome, effects |-> r.effects,
                               read |-> r.read, readsBack |-> readsBack]
                     IN  CASE r.outcome = "verified" ->
                                /\ fill' = FillMoves("done", 0, loc, k, Len(SpecialOps), a, "pw2")
                                /\ result' = Returned(TRUE, <<0, loc>>, <<>>, r.effects, 0)
                           [] r.outcome = "threw" ->
                                /\ fill' = FillMoves("loop", 1, "main", k, Len(SpecialOps), a, "pw2")
                                /\ UNCHANGED result
                           [] OTHER ->
                                /\ fill' = FillMoves(after[1], after[2], after[3], k,
                                                     Len(SpecialOps), a, "pw2")
                                /\ UNCHANGED result
    /\ UNCHANGED <<driverVars, call, field>>

\* for (const selector of selectors) { main page attempt; iframe attempt }:
\* one location per step. Equality of the read-back returns the success
\* string; a rejection is caught and logged; a mismatch falls through; the
\* generic password selector with fewer than two fields continues with the
\* next selector.
FillTry ==
    /\ Invoked("fill_specific_field")
    /\ fill.stage = "loop"
    /\ fill.i <= NumSelectors(call.fieldType)
    /\ LET i == fill.i
           loc == fill.loc
           next == NextPos(i, loc)
           generic == IsGenericPassword(call.fieldType, i)
           ops == IF generic THEN GenericOps ELSE PlainOps
       IN  IF ~LocationAllows(call.location, loc)
           THEN /\ fill' = FillPasses("loop", next[1], next[2])
                /\ UNCHANGED result
           ELSE \E state \in FieldStates, readsBack \in BOOLEAN,
                   elem \in MayMatch(call.fieldType, i), k \in 0..Len(ops) :
                  /\ ~fill.pageOpen => k = 0
                  /\ IF generic THEN state # "absent" /\ elem = "pw2" ELSE state # "fewer"
                  /\ state = "absent" => elem = "other"
                  /\ LET r == Attempt(ops, k, state, readsBack)
                         a == [state |-> state, outcome |-> r.outcome, effects |-> r.effects,
                               read |-> r.read, readsBack |-> readsBack]
                     IN  CASE r.outcome = "verified" ->
                                /\ fill' = FillMoves("done", i, loc, k, Len(ops), a, elem)
                                /\ result' = Returned(TRUE, <<i, loc>>, <<>>, r.effects, 0)
                           [] r.outcome = "skipped" ->
                                /\ fill' = FillMoves("loop", i + 1, "main", k, Len(ops), a, elem)
                                /\ UNCHANGED result
                           [] OTHER ->
                                /\ fill' = FillMoves("loop", next[1], next[2], k, Len(ops), a, elem)
                                /\ UNCHANGED result
    /\ UNCHANGED <<driverVars, call, field>>

\* After the loop: return the failure string.
FillGivesUp ==
    /\ Invoked("fill_specific_field")
    /\ fill.stage = "loop"
    /\ fill.i > NumSelectors(call.fieldType)
    /\ fill' = [fill EXCEPT !.stage = "done"]
    /\ result' = Returned(FALSE, "none", <<>>, fill.attempt.effects, 0)
    /\ UNCHANGED <<driverVars, call, field>>

ToolsNext ==
    \/ TakeScreenShotTool
    \/ OpenURLTool
    \/ ClickElementTool
    \/ ClearAndTypeTool
    \/ ClearAndTypeAgain
    \/ WaitForElementTool
    \/ FindElementsTool
    \/ DumpIframeHTMLTool
    \/ AnalyzeFormFieldsTool
    \/ SubmitFormTool
    \/ FillSpecial
    \/ FillTry
    \/ FillGivesUp

SpecTools == ToolsInit /\ [][ToolsNext]_vars

\* ------------------------------------------------------ the driver's claims
Ended == pc \in {"done", "crashed"}

\* C2: once the browser is launched, every run that has ended has called
\* browser.close() exactly once.
C2_ReleasedExactlyOnce == Ended => closeCount = 1

\* C3 as stated: on both exits from run(...), the returning one and the
\* throwing one, one final screenshot is attempted before the browser closes.
C3_FinalShotOnBothExits ==
    pc = "done" => driverLog \in {<<"returned", "shot", "closed">>,
                                  <<"caught", "shot", "closed">>}

\* C3 amended: when run(...) throws, exactly one final screenshot is attempted
\* before the browser is closed and its failure is swallowed; when run(...)
\* returns, no final screenshot is attempted; on both exits the browser is then
\* closed, once.
C3_FinalShotOnlyOnThrow ==
    pc = "done" =>
        /\ runEnd = "completed" => driverLog = <<"returned", "closed">>
        /\ runEnd \in {"maxTurns", "error"} => driverLog = <<"caught", "shot", "closed">>
        /\ runEnd # "none"
        /\ ~browserOpen
        /\ closeCount = 1

\* The throwing exit was taken, the final screenshot failed, the browser closed.
C3_Witness ==
    /\ pc = "done"
    /\ runEnd = "error"
    /\ allocated = <<>>
    /\ driverLog = <<"caught", "shot", "closed">>

\* C4: a run that ended because the round cap was exhausted went through
\* Finalizing as a completed run does: no error path, no diagnostic screenshot.
C4_CapLikeCompletion ==
    (pc = "done" /\ runEnd = "maxTurns") => driverLog = <<"returned", "closed">>

\* C7: within a run the allocated paths are pairwise distinct, the counter has
\* moved by exactly one per allocation, and no path was written twice.
C7_PathsUnique ==
    /\ Len(allocated) = screenshotCounter
    /\ \A i \in 1..Len(allocated) : allocated[i] = ScreenshotPath(i)
    /\ \A i, j \in 1..Len(allocated) : i # j => allocated[i] # allocated[j]
    /\ \A p \in Paths : runWrites[p] <= 1

\* Three allocations, one of them overlapping another invocation, one written
\* and one whose write failed.
C7_Witness ==
    /\ Len(allocated) >= 3
    /\ pending > 0
    /\ \E i, j \in 1..Len(allocated) :
          runWrites[allocated[i]] = 1 /\ runWrites[allocated[j]] = 0

\* C8 as stated: a screenshot file, once written, is never written again, in
\* this run or a later one.
C8_NeverOverwrites ==
    [][\A p \in Paths : disk[p] # NoFile => disk'[p] = disk[p]]_vars

\* C8 amended: a screenshot file written in a run is not written again by a
\* later capture of the same run; a later run of the process restarts the
\* counter and writes over the earlier run's files.
C8_NoOverwriteWithinRun ==
    [][\A p \in Paths : (disk[p] # NoFile /\ disk[p][1] = run /\ run' = run)
                            => disk'[p] = disk[p]]_vars

\* A second run has written two files next to one left by the first run.
C8_Witness ==
    /\ run = 2
    /\ \E p, q, r \in Paths :
          /\ p # q
          /\ disk[p][1] = 2 /\ disk[q][1] = 2
          /\ disk[r][1] = 1

\* ------------------------------------------------------ the toolset's claims
Done == result.status \in {"returned", "thrown"}

HintTool(name) == call.tool = name /\ Done

\* C1: no tool invocation ends with a fault leaving execute(): every one ends
\* with a returned string.
C1_NoFaultEscapes == result.status # "thrown"

IsClick(e) == e[1] = "click"

C6_FrameSelectorResolves ==
    /\ (/\ Done
        /\ call.tool \in {"click_element", "clear_and_type", "wait_for_element"}
        /\ call.ops = NoCrash
        /\ call.dom.mainSel # "visible"
        /\ call.dom.mainText # "visible"
        /\ call.dom.frameSel = "visible")
           => (result.ok /\ result.via = "frameSel")
    /\ (HintTool("find_elements") /\ call.ops = NoCrash /\ call.nMain = 0 /\ call.nFrame > 0)
           => result.count > 0

\* C9: find_elements reports the number of all matches, lists min(count, 5)
\* of them, and answers zero matches with a result that is no error.
C9_CountsAllMatches ==
    (HintTool("find_elements") /\ call.ops = NoCrash) =>
        /\ result.status = "returned"
        /\ result.ok
        /\ call.nMain > 0 => /\ result.count = call.nMain
                             /\ result.listed = Min(call.nMain, DetailCap)
        /\ (call.nMain = 0 /\ call.nFrame = 0) => (result.count = 0 /\ result.listed = 0)

\* Every page mutation an invocation issued went to an element that had
\* resolved and was visible, and the first mutation of an element is the click
\* that waited for it.
EffectsOnVisible ==
    /\ (Done /\ call.tool \in {"click_element", "clear_and_type"}) =>
          /\ \A n \in 1..Len(result.effects) : call.dom[result.effects[n][2]] = "visible"
          /\ result.effects # <<>> => IsClick(result.effects[1])
    /\ HintTool("submit_form") =>
          \A n \in 1..Len(result.effects) : result.effects[n][2] \in call.vis
    /\ (call.tool = "fill_specific_field" /\ fill.attempt.effects # <<>>) =>
          /\ fill.attempt.state = "visible"
          /\ fill.attempt.effects[1] = "click"

\* The invocation issued no page mutation at all.
NoEffects ==
    IF call.tool = "fill_specific_field" THEN fill.touchedLocs = {}
    ELSE result.effects = <<>>

\* C10 as stated: mutations go only to resolved, visible elements, and an
\* invocation that ends in a failure result has issued none.
C10_NoEffectBeforeVisibleNoneOnFailure ==
    /\ EffectsOnVisible
    /\ (result.status = "returned" /\ ~result.ok) => NoEffects

\* C10 amended: no click, keypress or text entry is issued against an element
\* before it has resolved and is visible (by waitFor or by the click's own
\* wait); an invocation that ends in a failure result may have clicked,
\* pressed keys and entered text before it failed.
C10_NoEffectBeforeVisible == EffectsOnVisible

\* fill_specific_field returned its failure string after clicking and filling
\* fields on the main page and in the iframe, the page still there.
C10_Witness ==
    /\ call.tool = "fill_specific_field"
    /\ result.status = "returned"
    /\ ~result.ok
    /\ fill.pageOpen
    /\ fill.touchedLocs = {"main", "frame"}
    /\ fill.attempt.effects = <<"click", "press", "fill">>

\* C11: after clear_and_type(hint, X) reports success on a visible text input,
\* the input's value is exactly X whatever it held before, and a second
\* invocation with the same X leaves the value the first one left.
C11_ValueIsExactlyText ==
    (call.tool = "clear_and_type" /\ field.times >= 1 /\ result.ok) =>
        /\ field.value = call.text
        /\ (field.times = 2 /\ field.first) => field.value = field.before

\* Two successful invocations on a field that held other content.
C11_Witness ==
    /\ call.tool = "clear_and_type"
    /\ field.times = 2
    /\ field.first
    /\ result.ok
    /\ Len(call.old) = MaxLen
    /\ call.text # <<>>
    /\ call.text # call.old
    /\ field.value = call.text

\* C12: filling the second password field (fieldType confirmPassword) leaves
\* the first password field holding what it held when the tool was invoked,
\* on every path through the tool.
C12_FirstPasswordUnchanged ==
    (call.tool = "fill_specific_field" /\ call.fieldType = "confirmPassword") =>
        fill.pw1 = call.pw1

\* C13: a click_element invocation that has tried all of its strategies and
\* clicked nothing returns the failure result with the frame's markup written
\* to screenshots/iframe_debug.html before the return.
C13_FailedClickDumps ==
    (HintTool("click_element") /\ ~result.ok /\ result.effects = <<>>) =>
        result.status = "returned" /\ result.dumped

\* C14: when wait_for_element fails, the timeout its failure string names (the
\* one handed to waitFor) is the caller's number whenever one was supplied,
\* and the default of 10000 ms only when the timeout is null.
C14_TimeoutIsTheSuppliedOne ==
    (HintTool("wait_for_element") /\ result.status = "returned" /\ ~result.ok) =>
        result.timeout = IF call.timeout.given THEN call.timeout.ms ELSE DefaultTimeout

\* C15: fill_specific_field returns the success string only when the value
\* read back from the element it has just filled equals the requested one; a
\* differing read-back throws nothing and leaves the tool at its next
\* selector/location; the failure string is returned only after every
\* selector has been gone through; success is never reported on a differing
\* read-back.
C15_SuccessOnlyOnEqualReadBack ==
    call.tool = "fill_specific_field" =>
        /\ result.status # "thrown"
        /\ (result.status = "returned" /\ result.ok) =>
              /\ fill.attempt.read = "equal"
              /\ fill.attempt.outcome = "verified"
              /\ result.via = fill.attempt.at
              /\ \E n \in 1..Len(fill.attempt.effects) : fill.attempt.effects[n] = "fill"
        /\ fill.attempt.read = "differs" =>
              /\ ~result.ok
              /\ fill.attempt.outcome = "mismatch"
              /\ result.status = "pending" =>
                    <<fill.i, fill.loc>> = NextPos(fill.attempt.at[1], fill.attempt.at[2])
        /\ (result.status = "returned" /\ ~result.ok) =>
              fill.i > NumSelectors(call.fieldType)

\* A read-back differed, the tool went on and a later attempt verified.
C15_Witness ==
    /\ call.tool = "fill_specific_field"
    /\ fill.mismatched
    /\ result.status = "returned" /\ result.ok
    /\ fill.attempt.read = "equal"
    /\ fill.attempt.at[1] > 1

\* With location "main page" nothing in the frame is attempted, with "iframe"
\* nothing in the main document.
ScopeKept ==
    /\ call.location = "main page" =>
          fill.attempt.at[2] # "frame" /\ "frame" \notin fill.touchedLocs
    /\ call.location = "iframe" =>
          fill.attempt.at[2] # "main" /\ "main" \notin fill.touchedLocs

\* Where both locations are open: an attempt in the iframe follows the attempt
\* of the same selector on the main page, the tool moves forward in the list,
\* and a verified fill is the last attempt made.
MainBeforeFrame ==
    /\ fill.attempt.at[2] = "frame" => fill.mainTried = fill.attempt.at[1]
    /\ (fill.attempt.outcome # "none" /\ result.status = "pending") =>
          \/ fill.i > fill.attempt.at[1]
          \/ fill.i = fill.attempt.at[1] /\ fill.attempt.at[2] = "main" /\ fill.loc = "frame"
    /\ fill.attempt.outcome = "verified" =>
          result.status = "returned" /\ result.ok /\ result.via = fill.attempt.at

\* Nothing on the page is touched or queried and the result is the failure
\* string.
NoInteraction ==
    /\ fill.attempt = NoAttempt
    /\ fill.touchedLocs = {}
    /\ Done => (result.status = "returned" /\ ~result.ok)

\* C16 as stated: the location argument is a scope; null tries main before
\* iframe per selector and stops at the first verified fill; every string
\* other than "main page" and "iframe" leads to no page interaction and the
\* failure string.
C16_EveryOtherStringTouchesNothing ==
    call.tool = "fill_specific_field" =>
        /\ ScopeKept
        /\ call.location = "null" => MainBeforeFrame
        /\ call.location \notin {"null", "main page", "iframe"} => NoInteraction

\* C16, amended: as above, but the empty string is treated like null (both
\* locations, main first); only a non-empty string other than "main page" and
\* "iframe" leads to no page interaction and the failure string.
C16_ScopeWithEmptyAsNull ==
    call.tool = "fill_specific_field" =>
        /\ ScopeKept
        /\ NoLocation(call.location) => MainBeforeFrame
        /\ (~NoLocation(call.location) /\ call.location \notin {"main page", "iframe"}) =>
              NoInteraction

\* Location "": a fill on the main page did not verify, the same selector's
\* fill in the iframe did.
C16_Witness ==
    /\ call.tool = "fill_specific_field"
    /\ call.location = ""
    /\ result.status = "returned" /\ result.ok
    /\ fill.attempt.at[2] = "frame"
    /\ fill.touchedLocs = {"main", "frame"}

====
